---------------------------- MODULE Spec2Model ----------------------------
(***************************************************************************)
(* A model of read_Timer (src/read_Timer/__init__.py): the Keyword codec,  *)
(* the Band and Subint records, and TimerHeader.read, which walks a Timer  *)
(* file: header fields (with the embedded band), backend blob, polyco and  *)
(* ephemeris text, then nsub_int subint records each followed by a payload *)
(* that is skipped with a relative seek.                                   *)
(*                                                                         *)
(* The file is an unknown input.  Its content is revealed region by region *)
(* as the walk reads it and is remembered in `file`, so that a second read *)
(* of the same file sees the same bytes.  Text regions are sequences of    *)
(* bytes; a numeric region is represented by the number its bytes unpack   *)
(* to.  Objects that the code shares by reference (the three module-level  *)
(* keyword tables and the per-instance copies made by copy.deepcopy) live  *)
(* in `heap` and are reached through their address.                        *)
(***************************************************************************)
EXTENDS Integers, Sequences, FiniteSets, TLC

VARIABLES
    heap,      \* address -> keyword table; 1, 2, 3 are the module-level tables
    hdr,       \* the TimerHeader instance (its attributes), or NoObject
    file,      \* what is known of the file being read
    pos,       \* the offset of the open file object f
    pc,        \* where the caller / TimerHeader.read is
    err,       \* the exception that ended the read, or "none"
    isub,      \* the loop variable of read_subints
    visited,   \* the regions the current read has visited, in order
    nreads,    \* how many reads of the current file were started
    short,     \* a step of the current read found fewer bytes than it asked for
    first      \* the header state the first completed read of the file left

vars == <<heap, hdr, file, pos, pc, err, isub, visited, nreads, short, first>>

-----------------------------------------------------------------------------
(* Bounds of the model *)

\* the largest subint count a file declares
MaxSubints == 2
\* the integration values (seconds) a subint record may hold
IntegVals == {1, 2}
\* how many times the same file is read
MaxReads == 2

-----------------------------------------------------------------------------
(* Values *)

\* Python's None
None == [none |-> TRUE]
\* an attribute that was never assigned
Unset == [unset |-> TRUE]
NoObject == [noobject |-> TRUE]
\* a number unpacked by struct
Num(n) == [num |-> n]
\* a str
Str(s) == [str |-> s]
\* a Band instance held as a keyword value
BandObj(b) == [band |-> b]

\* the byte \x00
NUL == "NUL"
\* a byte that is not valid UTF-8
BAD == "0xFF"

Max2(a, b) == IF a >= b THEN a ELSE b
Min2(a, b) == IF a <= b THEN a ELSE b

\* _data_lengths
data_lengths == [int |-> 4, float |-> 4, double |-> 8, uint32_t |-> 4]

\* Keyword.__init__ followed by the dtype setter: a dtype of _data_lengths
\* fixes the size, any other dtype keeps the size given
Keyword(name, size, dtype) ==
    [name |-> name,
     size |-> IF dtype \in DOMAIN data_lengths THEN data_lengths[dtype] ELSE size,
     dtype |-> dtype,
     value |-> None]

\* get_definition on one declaration: a char array takes the length of its
\* declaration, every other type the size Keyword gives it
Declare(vartype, varname, length) ==
    IF vartype = "char" THEN [Keyword(varname, 0, vartype) EXCEPT !.size = length]
    ELSE Keyword(varname, 0, vartype)

\* _timer_keyword_definition: the fields of timer.h that TimerHeader uses
timer_keyword_definition ==
    << Declare("char", "telid", 2),
       Declare("char", "psrname", 4),
       Declare("char", "coord_type", 4),
       Declare("double", "ra", 0),
       Declare("double", "dec", 0),
       Declare("double", "l", 0),
       Declare("double", "b", 0),
       Declare("int", "nsub_int", 0),
       Declare("int", "nsub_band", 0),
       Declare("int", "nbin", 0),
       Declare("band", "banda", 0),
       Declare("int", "wts_and_bpass", 0),
       Declare("int", "nbytespoly", 0),
       Declare("int", "nbytesephem", 0),
       Declare("int", "be_data_size", 0) >>

\* _band_keyword_definition: the fields of band.h that Band uses
band_keyword_definition ==
    << Declare("double", "centrefreq", 0),
       Declare("double", "bw", 0),
       Declare("int", "npol", 0) >>

\* _subint_keyword_definition: the fields of mini.h that Subint uses
subint_keyword_definition ==
    << Declare("int", "mjd", 0),
       Declare("double", "fracmjd", 0),
       Declare("float", "integration", 0) >>

\* the addresses of the three module-level tables
TimerDef == 1
BandDef == 2
SubintDef == 3

-----------------------------------------------------------------------------
(* Keyword tables *)

\* the position of key in a table (dict lookup)
IndexOf(table, key) == CHOOSE i \in 1..Len(table) : table[i].name = key

\* keywords[key]
Get(table, key) == table[IndexOf(table, key)]

RECURSIVE SumSizes(_, _)
SumSizes(table, n) == IF n = 0 THEN 0 ELSE table[n].size + SumSizes(table, n - 1)

\* the size property of TimerHeader and of Subint: the sum of the keyword sizes
TableSize(table) == SumSizes(table, Len(table))

\* an assignment in place of the copy: the instance shares the table at src
aliascopy(h, src) == [heap |-> h, ref |-> src]

\* copy.deepcopy of the table at address src: a new table at a new address
deepcopy(h, src) == [heap |-> Append(h, h[src]), ref |-> Len(h) + 1]


-----------------------------------------------------------------------------
(* The file *)

\* the length of the file is not known yet
Unknown == 0 - 1

\* the largest declared length of a blob (backend, polyco, ephemeris)
MaxBlob == 2

\* the bytes of a text blob of n bytes: text ending in a NUL, or text ending
\* in a byte that does not decode
BlobTexts(n) ==
    IF n <= 0 THEN { <<>> }
    ELSE { [i \in 1..n |-> IF i = n THEN last ELSE "p"] : last \in {NUL, BAD} }

\* the coord_type bytes a file may hold
CoordTexts ==
    { <<"0", "5", NUL, NUL>>, <<"0", "4", NUL, NUL>>,
      <<"0", "9", NUL, NUL>>, <<"0", BAD, NUL, NUL>> }

\* the header region of a file: the fields whose value changes what the walk does
HeaderContents ==
    [coord_type : CoordTexts,
     nsub_int : -1..MaxSubints,
     nsub_band : {-1, 8},
     nbin : {1, 2},
     npol : {1, 2},
     wts_and_bpass : {0, 1},
     nbytespoly : {0, MaxBlob},
     nbytesephem : {0, MaxBlob},
     be_data_size : {-2, -1, MaxBlob}]

\* what the file holds in the band region of a header region
BandContent(hc, key) ==
    CASE key = "centrefreq" -> 1400
      [] key = "bw" -> 64
      [] key = "npol" -> hc.npol

\* what the file holds at a header field
Content(hc, key) ==
    CASE key = "telid" -> <<"7", NUL>>
      [] key = "psrname" -> <<"J", "0", "4", NUL>>
      [] key = "ra" -> 3
      [] key = "dec" -> 1
      [] key = "l" -> 40
      [] key = "b" -> 5
      [] OTHER -> hc[key]

\* what the file holds in the k-th subint record (k from 0), given its
\* integration value
SubintContent(k, integ, key) ==
    CASE key = "mjd" -> 100 + k
      [] key = "fracmjd" -> 0
      [] key = "integration" -> integ

\* a file of which nothing was read yet
NoFile ==
    [known |-> FALSE,
     h |-> CHOOSE hc \in HeaderContents : TRUE,
     kpoly |-> FALSE, polyco |-> <<>>,
     kephem |-> FALSE, ephem |-> <<>>,
     integ |-> <<>>,
     eof |-> Unknown, lo |-> 0]

\* the contents a text blob may have when a read of n bytes returns got of
\* them: what an earlier read saw; else any text of the length (a blob the
\* file ends in is cut before its last byte, and read(-1) takes what is left)
BlobChoices(known, old, n, got) ==
    IF known THEN { old }
    ELSE IF n = -1 THEN BlobTexts(got)
    ELSE IF got < n THEN { [i \in 1..n |-> IF i = n THEN NUL ELSE "p"] }
    ELSE BlobTexts(n)

\* the file lengths that agree with what was read so far, when n bytes at
\* offset p are touched next: the known length; or still unknown (the bytes
\* are there); or the file ends in this region, before its first or before its
\* last byte.  read(-1) runs to the end of the file and reveals it.
EofChoices(f, p, n) ==
    IF f.eof # Unknown THEN { f.eof }
    ELSE IF n = -1 THEN { Max2(p, f.lo) + k : k \in {0, 1} }
    ELSE { Unknown } \cup { p + k : k \in { j \in {0, n - 1} : j >= 0 /\ j < n /\ p + j >= f.lo } }

\* the file lengths that agree with what was read so far, when a seek passes
\* over n bytes at offset p: still unknown, or the file ends before the last
\* of them
SeekChoices(f, p, n) ==
    IF f.eof # Unknown \/ n <= 0 THEN { f.eof }
    ELSE { Unknown } \cup { p + k : k \in { j \in {n - 1} : p + j >= f.lo } }

\* fptr.read(n), n >= 0 or n = -1, at offset p of a file of length fl: how many
\* bytes it returns
Avail(p, n, fl) ==
    IF n = -1 THEN Max2(0, fl - p)
    ELSE IF fl = Unknown THEN n
    ELSE Min2(n, Max2(0, fl - p))

\* the file after got bytes at offset p were returned and its length fl was
\* (or was not) revealed
Touched(f, p, got, fl) == [f EXCEPT !.eof = fl, !.lo = Max2(f.lo, p + got)]

-----------------------------------------------------------------------------
(* Keyword.read *)

RECURSIVE rstrip(_)
\* str.rstrip("\x00")
rstrip(s) ==
    IF Len(s) > 0 /\ s[Len(s)] = NUL THEN rstrip(SubSeq(s, 1, Len(s) - 1)) ELSE s

\* bytes.decode() raises UnicodeDecodeError
Undecodable(bytes) == \E i \in 1..Len(bytes) : bytes[i] = BAD

\* struct.unpack of a single number: the buffer must hold size bytes
\* Keyword.read on got bytes of the field's content: the new value, and the
\* exception raised if any
KeywordRead(kw, content, got) ==
    IF kw.dtype = "char"
    THEN LET out == SubSeq(content, 1, got)
         IN  [value |-> IF Undecodable(out) THEN None ELSE Str(rstrip(out)),
              err |-> "none"]
    ELSE IF kw.dtype \in {"int", "float", "double", "uint32_t"}
    THEN IF got = data_lengths[kw.dtype]
         THEN [value |-> Num(content), err |-> "none"]
         ELSE [value |-> kw.value, err |-> "struct.error"]
    ELSE [value |-> kw.value, err |-> "UnboundLocalError"]

\* what the file holds at field key of a region: src names the region (the
\* header, the band, or the k-th subint record) and what the file holds there
FieldContent(src, key) ==
    CASE src.region = "header" -> Content(src.hc, key)
      [] src.region = "band" -> BandContent(src.hc, key)
      [] src.region = "subint" -> SubintContent(src.k, src.integ, key)

RECURSIVE ReadFields(_, _, _, _, _)
\* "for varname in self.keywords: self.keywords[varname].read(fptr)" from the
\* i-th keyword on, at offset p of a file of length fl.  Stops at the first
\* exception.
ReadFields(table, src, p, fl, i) ==
    IF i > Len(table) THEN [table |-> table, pos |-> p, err |-> "none"]
    ELSE LET kw == table[i]
             got == Avail(p, kw.size, fl)
             r == KeywordRead(kw, FieldContent(src, kw.name), got)
         IN  IF r.err # "none"
             THEN [table |-> table, pos |-> p + got, err |-> r.err]
             ELSE ReadFields([table EXCEPT ![i].value = r.value], src, p + got, fl, i + 1)

-----------------------------------------------------------------------------
(* Band *)

\* dtype[0], the struct format character Band.__init__ takes from a dtype
FormatChar(dtype) ==
    CASE dtype = "int" -> "i"
      [] dtype = "float" -> "f"
      [] dtype = "double" -> "d"
      [] dtype = "uint32_t" -> "u"
      [] dtype = "char" -> "c"
      [] dtype = "band" -> "b"

\* struct.calcsize of one format character (standard sizes, no padding)
FormatSize(ch) ==
    CASE ch = "i" -> 4
      [] ch = "f" -> 4
      [] ch = "d" -> 8
      [] OTHER -> 1

RECURSIVE CalcSize(_, _)
CalcSize(sequence, n) ==
    IF n = 0 THEN 0 ELSE FormatSize(sequence[n]) + CalcSize(sequence, n - 1)

\* Band.__init__: a deep copy of the band table; size and sequence are summed
\* over the module-level table itself
BandInit(h, name) ==
    LET d == deepcopy(h, BandDef)
        def == h[BandDef]
    IN  [heap |-> d.heap,
         band |-> [keywords |-> d.ref,
                   name |-> name,
                   size |-> TableSize(def),
                   sequence |-> [i \in 1..Len(def) |-> FormatChar(def[i].dtype)],
                   frequency |-> Unset, bandwidth |-> Unset, npol |-> Unset]]

\* Band.read at offset p of a file of length fl: one read of self.size bytes,
\* one struct.unpack of the whole sequence, the results zipped onto the keywords
BandRead(h, band, hc, p, fl) ==
    LET got == Avail(p, band.size, fl)
        table == h[band.keywords]
    IN  IF got # CalcSize(band.sequence, Len(band.sequence))
        THEN [heap |-> h, band |-> band, pos |-> p + got, err |-> "struct.error"]
        ELSE LET n == Min2(Len(table), Len(band.sequence))
                 read == [i \in 1..Len(table) |->
                             IF i <= n
                             THEN [table[i] EXCEPT
                                     !.value = Num(BandContent(hc, h[BandDef][i].name))]
                             ELSE table[i]]
             IN  [heap |-> [h EXCEPT ![band.keywords] = read],
                  band |-> [band EXCEPT !.frequency = Get(read, "centrefreq").value.num,
                                        !.bandwidth = Get(read, "bw").value.num,
                                        !.npol = Get(read, "npol").value.num],
                  pos |-> p + got, err |-> "none"]

-----------------------------------------------------------------------------
(* TimerHeader *)

\* TimerHeader.__init__ without a filename: a deep copy of the header table
\* and an empty subint list; no other attribute exists yet
TimerHeaderInit(h) ==
    LET d == deepcopy(h, TimerDef)
    IN  [heap |-> d.heap,
         hdr |-> [keywords |-> d.ref, subints |-> <<>>,
                  polyco |-> Unset, ephem |-> Unset, position |-> Unset,
                  telescope |-> Unset, psrname |-> Unset,
                  nchannels |-> Unset, npol |-> Unset,
                  duration |-> Unset, starttime |-> Unset, stoptime |-> Unset]]

RECURSIVE WalkHeader(_, _, _, _, _, _)
\* the loop of TimerHeader.read over self.keywords, from the i-th keyword on:
\* a keyword of dtype "band" is read as a new Band, which becomes its value
\* and gives it its size; any other keyword reads itself
WalkHeader(h, ref, hc, p, fl, i) ==
    IF i > Len(h[ref]) THEN [heap |-> h, pos |-> p, err |-> "none"]
    ELSE LET kw == h[ref][i]
         IN  IF kw.dtype = "band"
             THEN LET b == BandInit(h, kw.name)
                      r == BandRead(b.heap, b.band, hc, p, fl)
                  IN  IF r.err # "none"
                      THEN [heap |-> r.heap, pos |-> r.pos, err |-> r.err]
                      ELSE WalkHeader([r.heap EXCEPT ![ref][i].value = BandObj(r.band),
                                                     ![ref][i].size = r.band.size],
                                      ref, hc, r.pos, fl, i + 1)
             ELSE LET got == Avail(p, kw.size, fl)
                      r == KeywordRead(kw, Content(hc, kw.name), got)
                  IN  IF r.err # "none"
                      THEN [heap |-> h, pos |-> p + got, err |-> r.err]
                      ELSE WalkHeader([h EXCEPT ![ref][i].value = r.value],
                                      ref, hc, p + got, fl, i + 1)

\* the bytes the header loop asks the file for: the keyword sizes, with the
\* size of a Band at a band keyword
HeaderBytes(h, ref) == TableSize(h[ref]) - Get(h[ref], "banda").size + TableSize(h[BandDef])

\* TimerHeader.__getitem__
getitem(h, hd, key) == Get(h[hd.keywords], key)

\* the truth value of a Keyword instance: the class defines neither __bool__
\* nor __len__, so every instance is true
Truth(kw) == TRUE

\* the sizer with one float per polarisation in place of two
subint_data_size_onefloat(h, hd) ==
    LET nbin == getitem(h, hd, "nbin").value.num
    IN  hd.nchannels * data_lengths["float"] * (1 + hd.npol)
        + hd.nchannels * (data_lengths["float"] * 2 + data_lengths["int"] * 2)
        + hd.nchannels * (2 * data_lengths["float"] + nbin * 2)

\* the subint_data_size property
subint_data_size(h, hd) ==
    LET nbin == getitem(h, hd, "nbin").value.num
        branch == IF Truth(getitem(h, hd, "wts_and_bpass"))
                  THEN hd.nchannels * data_lengths["float"] * (1 + 2 * hd.npol)
                  ELSE data_lengths["float"] * 2 + hd.nchannels * hd.npol * nbin * 2
    IN  branch
        + hd.nchannels * (data_lengths["float"] * 2 + data_lengths["int"] * 2)
        + hd.nchannels * (2 * data_lengths["float"] + nbin * 2)

\* SkyCoord(lon * unit, lat * unit, frame=frame)
SkyCoord(lon, lat, unit, frame) == [lon |-> lon, lat |-> lat, unit |-> unit, frame |-> frame]

\* the position with the galactic branch tested first and taken for "05"
Position_swapped(h, hd) ==
    LET ct == getitem(h, hd, "coord_type").value
    IN  IF ct = Str(<<"0", "5">>)
        THEN SkyCoord(getitem(h, hd, "l").value.num, getitem(h, hd, "b").value.num,
                      "deg", "galactic")
        ELSE IF ct = Str(<<"0", "4">>)
        THEN SkyCoord(getitem(h, hd, "ra").value.num, getitem(h, hd, "dec").value.num,
                      "rad", "icrs")
        ELSE None

\* self.position, from coord_type
Position(h, hd) ==
    LET ct == getitem(h, hd, "coord_type").value
    IN  IF ct = Str(<<"0", "5">>)
        THEN SkyCoord(getitem(h, hd, "ra").value.num, getitem(h, hd, "dec").value.num,
                      "rad", "icrs")
        ELSE IF ct = Str(<<"0", "4">>)
        THEN SkyCoord(getitem(h, hd, "l").value.num, getitem(h, hd, "b").value.num,
                      "deg", "galactic")
        ELSE None

\* Time(mjd, format="mjd"), in seconds
Time(mjd) == mjd * 86400

\* the header state a caller can observe, with every reference followed
Snapshot(h, hd) ==
    [fields |-> [i \in 1..Len(h[hd.keywords]) |->
                    LET kw == h[hd.keywords][i]
                    IN  IF kw.dtype = "band" /\ kw.value # None
                        THEN [kw EXCEPT !.value =
                                [kw.value.band EXCEPT !.keywords = h[kw.value.band.keywords]]]
                        ELSE kw],
     subints |-> [i \in 1..Len(hd.subints) |->
                    [hd.subints[i] EXCEPT !.keywords = h[hd.subints[i].keywords]]],
     polyco |-> hd.polyco, ephem |-> hd.ephem, position |-> hd.position,
     telescope |-> hd.telescope, psrname |-> hd.psrname,
     nchannels |-> hd.nchannels, npol |-> hd.npol,
     duration |-> hd.duration, starttime |-> hd.starttime, stoptime |-> hd.stoptime]

-----------------------------------------------------------------------------
(* The caller and the steps of TimerHeader.read *)

Init ==
    /\ heap = <<timer_keyword_definition, band_keyword_definition, subint_keyword_definition>>
    /\ hdr = NoObject
    /\ file = NoFile
    /\ pos = 0
    /\ pc = "start"
    /\ err = "none"
    /\ isub = 0
    /\ visited = <<>>
    /\ nreads = 0
    /\ short = FALSE
    /\ first = NoObject

\* the module-level tables, without the instances no caller holds any more
Globals(h) == SubSeq(h, 1, SubintDef)

\* h = TimerHeader(), to read a file not read before.  TimerHeader(filename)
\* is this step followed by Read.
NewHeader ==
    /\ pc \in {"start", "done", "error"}
    /\ LET t == TimerHeaderInit(Globals(heap))
       IN  /\ heap' = t.heap
           /\ hdr' = t.hdr
    /\ file' = NoFile
    /\ nreads' = 0
    /\ short' = FALSE
    /\ first' = NoObject
    /\ pc' = "idle"
    /\ err' = "none"
    /\ pos' = 0
    /\ isub' = 0
    /\ visited' = <<>>

\* h = TimerHeader(), to read again the file a completed read has read
NewHeaderSameFile ==
    /\ pc = "done"
    /\ nreads < MaxReads
    /\ LET t == TimerHeaderInit(Globals(heap))
       IN  /\ heap' = t.heap
           /\ hdr' = t.hdr
    /\ pc' = "idle"
    /\ pos' = 0
    /\ isub' = 0
    /\ visited' = <<>>
    /\ short' = FALSE
    /\ UNCHANGED <<file, nreads, first, err>>

\* TimerHeader.read up to the end of the loop over the header keywords: the
\* file is opened (offset 0) and every header keyword is read
HeaderFields ==
    /\ nreads < MaxReads
    /\ \E hc \in (IF file.known THEN {file.h} ELSE HeaderContents),
          fl \in EofChoices(file, 0, HeaderBytes(heap, hdr.keywords)) :
          \* an empty file holds no header
          /\ (fl = 0 /\ ~file.known) => hc = NoFile.h
          /\ LET w == WalkHeader(heap, hdr.keywords, hc, 0, fl, 1)
             IN  /\ heap' = w.heap
                 /\ pos' = w.pos
                 /\ file' = Touched([file EXCEPT !.known = (fl # 0) \/ file.known, !.h = hc],
                                    0, w.pos, fl)
                 /\ pc' = IF w.err = "none" THEN "backend" ELSE "error"
                 /\ err' = w.err
                 /\ short' = (w.pos < HeaderBytes(heap, hdr.keywords))
    /\ nreads' = nreads + 1
    /\ isub' = 0
    /\ visited' = <<"header">>
    /\ UNCHANGED <<hdr, first>>

\* h.read(filename) on a new TimerHeader
Read ==
    /\ pc = "idle"
    /\ HeaderFields

\* h.read(filename) once more on the TimerHeader that has read the file
ReadAgain ==
    /\ pc = "done"
    /\ HeaderFields

\* "out = f.read(self.keywords['be_data_size'].value)": the backend blob
SkipBackendBlob ==
    /\ pc = "backend"
    /\ LET n == getitem(heap, hdr, "be_data_size").value.num
       IN  IF n < -1
           THEN /\ pc' = "error"
                /\ err' = "ValueError"
                /\ UNCHANGED <<pos, file, visited, short>>
           ELSE \E fl \in EofChoices(file, pos, n) :
                   LET got == Avail(pos, n, fl)
                   IN  /\ pos' = pos + got
                       /\ short' = (short \/ (n >= 0 /\ got < n))
                       /\ file' = Touched(file, pos, got, fl)
                       /\ visited' = Append(visited, "backend")
                       /\ pc' = IF getitem(heap, hdr, "nbytespoly").value.num > 0
                                THEN "polyco" ELSE "ephem"
                       /\ err' = "none"
    /\ UNCHANGED <<heap, hdr, isub, nreads, first>>

\* "out = f.read(nbytespoly); self.polyco = out.decode().rstrip('\x00')",
\* reached only when nbytespoly > 0
ReadPolycoText ==
    /\ pc = "polyco"
    /\ LET n == getitem(heap, hdr, "nbytespoly").value.num
       IN  \E fl \in EofChoices(file, pos, n) :
             LET got == Avail(pos, n, fl)
             IN  \E text \in BlobChoices(file.kpoly, file.polyco, n, got) :
                   LET out == SubSeq(text, 1, got)
                   IN  /\ pos' = pos + got
                       /\ short' = (short \/ (n >= 0 /\ got < n))
                       /\ file' = Touched([file EXCEPT !.kpoly = (got = n) \/ file.kpoly,
                                                       !.polyco = text],
                                          pos, got, fl)
                       /\ visited' = Append(visited, "polyco")
                       /\ IF Undecodable(out)
                          THEN /\ pc' = "error"
                               /\ err' = "UnicodeDecodeError"
                               /\ hdr' = hdr
                          ELSE /\ pc' = "ephem"
                               /\ err' = "none"
                               /\ hdr' = [hdr EXCEPT !.polyco = Str(rstrip(out))]
    /\ UNCHANGED <<heap, isub, nreads, first>>

\* "out = f.read(nbytesephem); self.ephem = out.decode().rstrip('\x00')"
ReadEphemText ==
    /\ pc = "ephem"
    /\ LET n == getitem(heap, hdr, "nbytesephem").value.num
       IN  IF n < -1
           THEN /\ pc' = "error"
                /\ err' = "ValueError"
                /\ UNCHANGED <<pos, file, visited, hdr, short>>
           ELSE \E fl \in EofChoices(file, pos, n) :
                 LET got == Avail(pos, n, fl)
                 IN  \E text \in BlobChoices(file.kephem, file.ephem, n, got) :
                       LET out == SubSeq(text, 1, got)
                       IN  /\ pos' = pos + got
                           /\ short' = (short \/ (n >= 0 /\ got < n))
                           /\ file' = Touched([file EXCEPT
                                                 !.kephem = (got = n) \/ (n = -1) \/ file.kephem,
                                                 !.ephem = text],
                                              pos, got, fl)
                           /\ visited' = Append(visited, "ephem")
                           /\ IF Undecodable(out)
                              THEN /\ pc' = "error"
                                   /\ err' = "UnicodeDecodeError"
                                   /\ hdr' = hdr
                              ELSE /\ pc' = "attrs"
                                   /\ err' = "none"
                                   /\ hdr' = [hdr EXCEPT !.ephem = Str(rstrip(out))]
    /\ UNCHANGED <<heap, isub, nreads, first>>

\* "process some of the more useful keywords": position, telescope, psrname,
\* nchannels, npol, and the duration set to zero before read_subints
ProcessKeywords ==
    /\ pc = "attrs"
    /\ hdr' = [hdr EXCEPT
                 !.position = Position(heap, hdr),
                 !.telescope = getitem(heap, hdr, "telid").value,
                 !.psrname = getitem(heap, hdr, "psrname").value,
                 !.nchannels = getitem(heap, hdr, "nsub_band").value.num,
                 !.npol = Get(heap[getitem(heap, hdr, "banda").value.band.keywords],
                              "npol").value.num,
                 !.duration = 0]
    /\ pc' = "subints"
    /\ isub' = 0
    /\ UNCHANGED <<heap, file, pos, err, visited, nreads, short, first>>

\* one iteration of read_subints up to the seek: a new Subint is appended,
\* reads its keywords, takes its start time and integration, and adds its
\* integration to the duration
ReadSubint ==
    /\ pc = "subints"
    /\ isub < getitem(heap, hdr, "nsub_int").value.num
    /\ LET d == deepcopy(heap, SubintDef)
           new == [number |-> isub, keywords |-> d.ref,
                   starttime |-> Unset, integration |-> Unset]
           size == TableSize(d.heap[d.ref])
           seen == isub < Len(file.integ)
       IN  \E fl \in EofChoices(file, pos, size) :
           \E integ \in (IF seen THEN {file.integ[isub + 1]}
                         ELSE IF Avail(pos, size, fl) < size THEN {1}
                         ELSE IntegVals) :
             LET r == ReadFields(d.heap[d.ref],
                                 [region |-> "subint", k |-> isub, integ |-> integ],
                                 pos, fl, 1)
                 sub == [new EXCEPT
                           !.starttime = Time(Get(r.table, "mjd").value.num
                                              + Get(r.table, "fracmjd").value.num),
                           !.integration = Get(r.table, "integration").value.num]
             IN  /\ heap' = [d.heap EXCEPT ![d.ref] = r.table]
                 /\ pos' = r.pos
                 /\ short' = (short \/ Avail(pos, size, fl) < size)
                 /\ file' = Touched([file EXCEPT !.integ = IF seen \/ r.err # "none"
                                                           THEN @ ELSE Append(@, integ)],
                                    pos, r.pos - pos, fl)
                 /\ visited' = Append(visited, "subint")
                 /\ err' = r.err
                 /\ IF r.err # "none"
                    THEN /\ pc' = "error"
                         /\ hdr' = [hdr EXCEPT !.subints = Append(@, new)]
                    ELSE /\ pc' = "payload"
                         /\ hdr' = [hdr EXCEPT !.subints = Append(@, sub),
                                               !.duration = @ + sub.integration]
    /\ UNCHANGED <<isub, nreads, first>>

\* "fptr.seek(self.subint_data_size, 1)": the payload is skipped, not read; a
\* seek may pass the end of the file, and fails before offset 0
SkipSubintPayload ==
    /\ pc = "payload"
    /\ LET n == subint_data_size(heap, hdr)
       IN  IF pos + n < 0
           THEN /\ pc' = "error"
                /\ err' = "OSError"
                /\ UNCHANGED <<pos, file, isub, visited, short>>
           ELSE /\ pos' = pos + n
                /\ \E fl \in SeekChoices(file, pos, n) :
                      /\ file' = [file EXCEPT !.eof = fl]
                      /\ short' = (short \/ (n > 0 /\ fl # Unknown /\ fl < pos + n))
                /\ isub' = isub + 1
                /\ visited' = Append(visited, "payload")
                /\ pc' = "subints"
                /\ err' = "none"
    /\ UNCHANGED <<heap, hdr, nreads, first>>

\* the end of TimerHeader.read, after read_subints returned: the start time
\* of the first subint of the list, and the stop time
Finalize ==
    /\ pc = "subints"
    /\ ~(isub < getitem(heap, hdr, "nsub_int").value.num)
    /\ IF Len(hdr.subints) = 0
       THEN /\ pc' = "error"
            /\ err' = "IndexError"
            /\ UNCHANGED <<hdr, first, visited>>
       ELSE LET start == hdr.subints[1].starttime
                done == [hdr EXCEPT !.starttime = start,
                                    !.stoptime = start + hdr.duration]
            IN  /\ hdr' = done
                /\ pc' = "done"
                /\ err' = "none"
                /\ visited' = Append(visited, "finalize")
                /\ first' = IF first = NoObject THEN Snapshot(heap, done) ELSE first
    /\ UNCHANGED <<heap, file, pos, isub, nreads, short>>

Next ==
    \/ NewHeader
    \/ NewHeaderSameFile
    \/ Read
    \/ ReadAgain
    \/ SkipBackendBlob
    \/ ReadPolycoText
    \/ ReadEphemText
    \/ ProcessKeywords
    \/ ReadSubint
    \/ SkipSubintPayload
    \/ Finalize

Spec == Init /\ [][Next]_vars

-----------------------------------------------------------------------------
(* Properties *)

\* the decoded header counts of the instance
Count(key) == getitem(heap, hdr, key).value.num

\* the read is between the header loop and its end
InRead == pc \in {"backend", "polyco", "ephem", "attrs", "subints", "payload"}

\* the sum of the lengths of the known-size regions of the file, as the
\* header that has read it declares them
DeclaredTotal ==
    TableSize(heap[hdr.keywords])
    + Count("be_data_size")
    + (IF Count("nbytespoly") > 0 THEN Count("nbytespoly") ELSE 0)
    + Count("nbytesephem")
    + Count("nsub_int") * (TableSize(heap[SubintDef]) + subint_data_size(heap, hdr))

\* Every read that completes ends at the offset the declared sizes add up to.
OffsetAccounting == pc = "done" => pos = DeclaredTotal

\* C1: a read that completes ends at the offset that is the sum of the header
\* field sizes (the band slot counted as the Band's size), be_data_size,
\* nbytespoly when positive, nbytesephem, and nsub_int times (subint schema
\* size + subint_data_size); and no byte is read twice: no subint record is
\* read from below the highest offset the read has already read.
C1_OffsetAndNoRereadClaim ==
    /\ OffsetAccounting
    /\ (pc = "subints" /\ nreads = 1 /\ isub < Count("nsub_int")) => pos >= file.lo

\* the false branch of the payload size, from the counts the file holds
SizeWithoutWeights(nchannels, npol, nbin) ==
    2 * 4 + nchannels * npol * nbin * 2
    + nchannels * (2 * 4 + 2 * 4) + nchannels * (2 * 4 + nbin * 2)

\* the true branch of the payload size, from the counts the file holds
SizeWithWeights(nchannels, npol, nbin) ==
    nchannels * 4 * (1 + 2 * npol)
    + nchannels * (2 * 4 + 2 * 4) + nchannels * (2 * 4 + nbin * 2)

\* C2: when the decoded value of wts_and_bpass is false, the payload size is
\* 2*4 + nchannels*npol*nbin*2 + nchannels*(2*4 + 2*4) + nchannels*(2*4 + nbin*2)
\* (stated here for the files whose channel count is not negative).
C2_FalseBranchClaim ==
    (pc = "payload" /\ Count("wts_and_bpass") = 0 /\ Count("nsub_band") >= 0)
        => subint_data_size(heap, hdr)
             = SizeWithoutWeights(file.h.nsub_band, file.h.npol, file.h.nbin)

\* C3: when wts_and_bpass is true, the payload size is nchannels*4*(1 + 2*npol)
\* plus nchannels*(2*4 + 2*4) plus nchannels*(2*4 + nbin*2), a function of the
\* decoded counts alone, the same at every subint of the file.
C3_TrueBranchSize ==
    (pc = "payload" /\ Count("wts_and_bpass") = 1)
        => /\ subint_data_size(heap, hdr)
                = SizeWithWeights(file.h.nsub_band, file.h.npol, file.h.nbin)
           /\ hdr.nchannels = Count("nsub_band")
           /\ hdr.npol = file.h.npol

\* the second subint of a file with 8 channels, 2 polarisations and the flag
\* set is about to be skipped by 160 bytes plus the two per-channel blocks
C3_Witness ==
    /\ pc = "payload"
    /\ isub = 1
    /\ Count("wts_and_bpass") = 1
    /\ Count("nsub_band") = 8
    /\ hdr.npol = 2
    /\ subint_data_size(heap, hdr) = 160 + 8 * 16 + 8 * (8 + 2 * Count("nbin"))

\* C4: a read in which some step finds fewer bytes left in the file than it
\* declares never completes.
C4_TruncationFailsClaim == short => pc # "done"

\* the regions a read of a file with header region hc visits, in order
RECURSIVE SubintRegions(_)
SubintRegions(n) ==
    IF n <= 0 THEN <<>> ELSE <<"subint", "payload">> \o SubintRegions(n - 1)

ExpectedRegions(hc) ==
    <<"header", "backend">>
    \o (IF hc.nbytespoly > 0 THEN <<"polyco">> ELSE <<>>)
    \o <<"ephem">>
    \o SubintRegions(hc.nsub_int)
    \o <<"finalize">>

IsPrefix(a, b) == Len(a) <= Len(b) /\ SubSeq(b, 1, Len(a)) = a

\* The regions are visited in the order header, backend, polyco iff
\* nbytespoly > 0, ephemeris, nsub_int times (subint, payload), finalisation.
RegionOrder ==
    /\ Len(visited) > 0 => visited[1] = "header"
    /\ Len(visited) > 1 => IsPrefix(visited, ExpectedRegions(file.h))
    /\ pc = "done" => visited = ExpectedRegions(file.h)

\* C5: the regions are visited strictly in order, and the cursor never moves
\* backwards at any step of a read.
C5_OrderAndMonotoneClaim == [][RegionOrder' /\ (InRead => pos' >= pos)]_vars

\* a file that is whole, declares no negative size and holds text that decodes
ValidFile ==
    /\ file.known
    /\ ~short
    /\ file.h.be_data_size >= 0
    /\ file.h.nsub_band >= 0
    /\ file.h.nsub_int >= 0
    /\ file.kpoly => ~Undecodable(file.polyco)
    /\ file.kephem => ~Undecodable(file.ephem)

RECURSIVE SumSeq(_, _)
SumSeq(q, n) == IF n = 0 THEN 0 ELSE q[n] + SumSeq(q, n - 1)

\* the subint list, start time, duration and stop time a read of the file
\* is to leave
SubintsAsOnDisk ==
    /\ Len(hdr.subints) = file.h.nsub_int
    /\ \A i \in 1..Len(hdr.subints) :
          /\ hdr.subints[i].number = i - 1
          /\ hdr.subints[i].starttime = (100 + i - 1) * 86400
          /\ hdr.subints[i].integration = file.integ[i]
    /\ Len(hdr.subints) > 0 => hdr.starttime = hdr.subints[1].starttime
    /\ hdr.duration = SumSeq(file.integ, file.h.nsub_int)
    /\ hdr.stoptime = hdr.starttime + hdr.duration

\* C6: the first read of any valid file, with any subint count from 0 on, into
\* a new TimerHeader completes, with nsub_int subints in on-disk order, the
\* start time of the first subint, the summed duration and stop = start + duration.
C6_ValidFileCompletesClaim ==
    (nreads = 1 /\ pc \in {"done", "error"} /\ ValidFile)
        => (pc = "done" /\ SubintsAsOnDisk)

\* The first read of a valid file that declares at least one subint, into a
\* new TimerHeader, completes with the subint list and the derived times.
ValidNonEmptyFileCompletes ==
    (nreads = 1 /\ pc \in {"done", "error"} /\ ValidFile /\ file.h.nsub_int >= 1)
        => (pc = "done" /\ SubintsAsOnDisk)

\* C7: any later completed read of the same file, into a new TimerHeader or
\* into the one that has read it, leaves the header state the first read left.
C7_RereadIdempotentClaim ==
    (pc = "done" /\ first # NoObject /\ ValidFile) => Snapshot(heap, hdr) = first

\* A completed read of the same file into a new TimerHeader leaves the header
\* state the first read left.
NewHeaderRereadSame ==
    (pc = "done" /\ first # NoObject /\ Len(hdr.subints) = file.h.nsub_int)
        => Snapshot(heap, hdr) = first

\* C8: no read is ended by a text that does not decode.
C8_DecodeFailureNotFatalClaim == ~(pc = "error" /\ err = "UnicodeDecodeError")

\* A header or subint char field that does not decode ends no read: its value
\* is None.
CharFieldFailureNotFatal ==
    (pc # "error" /\ file.known /\ Undecodable(file.h.coord_type) /\ visited # <<>>)
        => getitem(heap, hdr, "coord_type").value = None

\* C9: after a completed read the position follows from the coord_type bytes
\* alone: "05" gives (ra, dec) in radians, "04" gives (l, b) in degrees in the
\* galactic frame, anything else (text that does not decode included) gives
\* None; the other derived attributes do not depend on coord_type.
C9_PositionByCoordType ==
    pc = "done" =>
        /\ file.h.coord_type = <<"0", "5", NUL, NUL>>
              => hdr.position = [lon |-> 3, lat |-> 1, unit |-> "rad", frame |-> "icrs"]
        /\ file.h.coord_type = <<"0", "4", NUL, NUL>>
              => hdr.position = [lon |-> 40, lat |-> 5, unit |-> "deg", frame |-> "galactic"]
        /\ file.h.coord_type \notin {<<"0", "5", NUL, NUL>>, <<"0", "4", NUL, NUL>>}
              => hdr.position = None
        /\ hdr.telescope = Str(<<"7">>)
        /\ hdr.psrname = Str(<<"J", "0", "4">>)
        /\ hdr.nchannels = file.h.nsub_band
        /\ hdr.npol = file.h.npol
        /\ hdr.duration = SumSeq(file.integ, file.h.nsub_int)
        /\ hdr.starttime = 100 * 86400
        /\ hdr.stoptime = hdr.starttime + hdr.duration

\* a read has completed on a file whose coord_type does not decode, and left
\* no position
C9_Witness ==
    /\ pc = "done"
    /\ file.h.coord_type = <<"0", BAD, NUL, NUL>>
    /\ getitem(heap, hdr, "coord_type").value = None
    /\ hdr.position = None
    /\ Len(hdr.subints) = 2

\* C10: the three module-level keyword tables never change.
C10_SchemasNeverChange ==
    /\ heap[TimerDef] = timer_keyword_definition
    /\ heap[BandDef] = band_keyword_definition
    /\ heap[SubintDef] = subint_keyword_definition

\* a second read of a file has completed, with every value in the tables of
\* the instances
C10_Witness ==
    /\ pc = "done"
    /\ nreads = 2
    /\ hdr.keywords # TimerDef
    /\ getitem(heap, hdr, "banda").size = 20
    /\ \A i \in 1..Len(heap[hdr.keywords]) : heap[hdr.keywords][i].value # None
    /\ Len(hdr.subints) > 0

=============================================================================
